---- MODULE Spec2Model ----
(***************************************************************************)
(* State-machine model of StockQuotes.API: the fixed-window RateLimiter    *)
(* (services/rateLimiter.ts), the TTL CacheService with optional disk      *)
(* persistence (services/cacheService.ts), the request handlers that put   *)
(* both in front of an upstream source (functions/*.ts) and the promise    *)
(* chain through which YahooFinanceService runs its upstream calls         *)
(* (services/yahooFinanceService.ts).                                      *)
(* Time is the value Date.now() returns; it moves only through Tick (the   *)
(* limiter specifications), CacheTick (the cache specifications),          *)
(* HandlerTick (the handler specification) and QueueTick (the queue        *)
(* specifications).                                                        *)
(***************************************************************************)
EXTENDS Integers, Sequences, FiniteSets, TLC

\* ------------------------------------------------------------------ bounds
\* Largest clock value explored.
MaxTime == 4
\* windowMs of both limiter instances (60000 in the source), scaled down.
WindowTicks == 1
\* maxRequests of apiRateLimiter (100 in the source), scaled down.
ApiMax == 2
\* maxRequests of strictRateLimiter (20 in the source), scaled down.
StrictMax == 1
\* Largest clock value explored by the cache specification.
MaxCacheTime == 2
\* Largest ttlMs a CacheService is configured with (CACHE_TTL_SECONDS * 1000).
MaxTtl == 1
\* Largest clock value explored by the handler specification.
MaxHandlerTime == 2
\* Length of a UTC day (86400000 ms), scaled down.
DayTicks == 1
\* Largest number of upstream tasks passed to YahooFinanceService.enqueue.
MaxTasks == 3

\* --------------------------------------------------------------- variables
VARIABLES
  now,        \* Date.now()
  requests,   \* requests[inst]: the Map<string, RateLimitEntry> of an instance
  rlCall,     \* the limiter operation performed by the last step
  rlRet,      \* what the last isAllowed call returned
  rlSeen,     \* <<entry>> the last isAllowed call found for its identifier, <<>> if none
  obsInst,    \* the limiter instance whose identifier ObsId is observed
  trace,      \* history: results of the calls of the observed identifier
              \* since (and including) its last call that found no entry
  grants,     \* history: grants[t] = allowed calls of the observed identifier at time t
  shadow,     \* history: the maps of limiters that took the same calls but
              \* whose cleanup timer never fired
  shadowRet,  \* history: what the last isAllowed call of such a limiter
              \* returned, and whether it found an entry
  enabled,            \* CacheService.enabled
  persistenceEnabled, \* CacheService.persistenceEnabled
  ttlMs,              \* CacheService.ttlMs
  cache,      \* CacheService.cache: Map<string, CacheEntry>
  disk,       \* the .json files of cacheDir: file name -> content and mtime
  keysInUse,  \* the cache keys the callers of this run use
  cCall,      \* the cache operation performed by the last step
  cRet,       \* what the last cache operation returned
  readOnly,   \* cacheDir refuses writes and unlinks (EACCES, EROFS)
  lastSet,    \* history: lastSet[k] = the value of the last set(k, v) of this
              \* process, "cleared" after a clear(), "none" before either
  pending,    \* pending[endpoint]: <<call>> for the request of that endpoint
              \* awaiting its upstream call, <<>> when there is none
  hCall,      \* the handler step performed last: request, steps run, response
  lastMiss,   \* history: lastMiss[endpoint] = when, and under which key, the
              \* handler last stored an upstream result
  tasks,      \* the promises enqueue has returned, in the order of the calls:
              \* the promise each was chained on, its state, its caller
  queue,      \* YahooFinanceService.queue: 0 for Promise.resolve(), else the
              \* task whose settling it waits for
  started     \* history: the tasks in the order in which they were started

rlVars == <<requests, rlCall, rlRet, rlSeen>>
histVars == <<obsInst, trace, grants, shadow, shadowRet>>
cacheVars == <<enabled, persistenceEnabled, ttlMs, cache, disk, keysInUse, cCall, cRet,
               readOnly, lastSet>>
vars == <<now, requests, rlCall, rlRet, rlSeen, obsInst, trace, grants, shadow, shadowRet,
          enabled, persistenceEnabled, ttlMs, cache, disk, keysInUse, cCall, cRet,
          readOnly, lastSet, pending, hCall, lastMiss, tasks, queue, started>>
handlerVars == <<pending, hCall, lastMiss, tasks, queue, started>>

\* ------------------------------------------------------------ rate limiter
Instances == {"api", "strict"}
Identifiers == {"ip1", "ip2"}

windowMs(inst) == WindowTicks
maxRequests(inst) == IF inst = "api" THEN ApiMax ELSE StrictMax

\* Map.set / Map.delete on a map held as a function over its keys.
MapSet(m, k, v) == [x \in (DOMAIN m) \cup {k} |-> IF x = k THEN v ELSE m[x]]
MapDelete(m, k) == [x \in (DOMAIN m) \ {k} |-> m[x]]
EmptyMap == [x \in {} |-> 0]

NoCall == [op |-> "init", inst |-> "-", id |-> "-"]
NoRet == [allowed |-> FALSE, remaining |-> 0, resetTime |-> 0]
NoShadowRet == [result |-> NoRet, seen |-> FALSE]

\* `now > entry.resetTime`: the entry's window is over.
WindowElapsedGe(entry) == now >= entry.resetTime
WindowElapsed(entry) == now > entry.resetTime

\* `entry.count >= this.maxRequests`
LimitReachedGt(inst, entry) == entry.count > maxRequests(inst)
LimitReached(inst, entry) == entry.count >= maxRequests(inst)

\* The three branches of isAllowed: the map after the call and the result.
NewWindowDropsOthers(inst, m, identifier) ==
  LET newEntry == [count |-> 1, resetTime |-> now + windowMs(inst)]
  IN [map |-> MapSet(EmptyMap, identifier, newEntry),
      result |-> [allowed |-> TRUE, remaining |-> maxRequests(inst) - 1,
                  resetTime |-> newEntry.resetTime]]
NewWindowResetNow(inst, m, identifier) ==
  LET newEntry == [count |-> 1, resetTime |-> now + windowMs(inst)]
  IN [map |-> MapSet(m, identifier, newEntry),
      result |-> [allowed |-> TRUE, remaining |-> maxRequests(inst) - 1,
                  resetTime |-> now]]
NewWindow(inst, m, identifier) ==
  LET newEntry == [count |-> 1, resetTime |-> now + windowMs(inst)]
  IN [map |-> MapSet(m, identifier, newEntry),
      result |-> [allowed |-> TRUE, remaining |-> maxRequests(inst) - 1,
                  resetTime |-> newEntry.resetTime]]

RejectPostpones(inst, m, identifier) ==
  [map |-> MapSet(m, identifier, [m[identifier] EXCEPT !.resetTime = now + windowMs(inst)]),
   result |-> [allowed |-> FALSE, remaining |-> 0, resetTime |-> m[identifier].resetTime]]
Reject(inst, m, identifier) ==
  [map |-> m,
   result |-> [allowed |-> FALSE, remaining |-> 0, resetTime |-> m[identifier].resetTime]]

IncrementStaleRemaining(inst, m, identifier) ==
  LET entry == [m[identifier] EXCEPT !.count = @ + 1]
  IN [map |-> MapSet(m, identifier, entry),
      result |-> [allowed |-> TRUE, remaining |-> maxRequests(inst) - m[identifier].count,
                  resetTime |-> entry.resetTime]]
Increment(inst, m, identifier) ==
  LET entry == [m[identifier] EXCEPT !.count = @ + 1]
  IN [map |-> MapSet(m, identifier, entry),
      result |-> [allowed |-> TRUE, remaining |-> maxRequests(inst) - entry.count,
                  resetTime |-> entry.resetTime]]

isAllowed(inst, m, identifier) ==
  IF identifier \notin DOMAIN m \/ WindowElapsed(m[identifier])
    THEN NewWindow(inst, m, identifier)
    ELSE IF LimitReached(inst, m[identifier])
      THEN Reject(inst, m, identifier)
      ELSE Increment(inst, m, identifier)

\* cleanup(): delete every entry whose window is over.
cleanupGe(m) ==
  LET keep == {k \in DOMAIN m : ~(now >= m[k].resetTime)}
  IN [k \in keep |-> m[k]]
cleanup(m) ==
  LET keep == {k \in DOMAIN m : ~(now > m[k].resetTime)}
  IN [k \in keep |-> m[k]]

IsAllowed(inst, identifier) ==
  LET r == isAllowed(inst, requests[inst], identifier)
  IN /\ requests' = [requests EXCEPT ![inst] = r.map]
     /\ rlRet' = r.result
     /\ rlCall' = [op |-> "isAllowed", inst |-> inst, id |-> identifier]
     /\ rlSeen' = IF identifier \in DOMAIN requests[inst]
                    THEN <<requests[inst][identifier]>> ELSE <<>>
     /\ UNCHANGED now

Cleanup(inst) ==
  /\ requests' = [requests EXCEPT ![inst] = cleanup(requests[inst])]
  /\ rlCall' = [op |-> "cleanup", inst |-> inst, id |-> "-"]
  /\ rlSeen' = <<>>
  /\ UNCHANGED <<now, rlRet>>

\* The clock advances by one millisecond.
Tick ==
  /\ now < MaxTime
  /\ now' = now + 1
  /\ rlCall' = [op |-> "tick", inst |-> "-", id |-> "-"]
  /\ rlSeen' = <<>>
  /\ UNCHANGED <<requests, rlRet>>

NoCacheCall == [op |-> "init", key |-> <<>>, data |-> "-", justSet |-> "-"]

NoRequest ==
  [endpoint |-> "-", xff |-> "null", xri |-> "null", ticker |-> "null",
   fields |-> <<>>, ifNoneMatch |-> <<>>]
NoResponse == [status |-> 0, headers |-> {}, xCache |-> "-", body |-> "-"]
NoHandlerCall ==
  [op |-> "init", request |-> NoRequest, allowed |-> FALSE, key |-> <<>>,
   steps |-> <<>>, response |-> NoResponse]

\* No request has arrived.
HandlersIdle ==
  /\ pending = <<>>
  /\ hCall = NoHandlerCall
  /\ lastMiss = <<>>
  /\ tasks = <<>>
  /\ queue = 0
  /\ started = <<>>

\* The cache of a process that only exercises its limiters: default
\* configuration, nothing stored.
CacheIdle ==
  /\ enabled = TRUE
  /\ persistenceEnabled = FALSE
  /\ ttlMs = MaxTtl
  /\ cache = [x \in {} |-> 0]
  /\ disk = [x \in {} |-> 0]
  /\ keysInUse = {}
  /\ cCall = NoCacheCall
  /\ cRet = "void"
  /\ readOnly = FALSE
  /\ lastSet = <<>>
  /\ HandlersIdle

\* The limiters right after the module is loaded, at time 0.
LimitersStart ==
  /\ now = 0
  /\ requests = [inst \in Instances |-> EmptyMap]
  /\ rlCall = NoCall
  /\ rlRet = NoRet
  /\ rlSeen = <<>>
  /\ trace = <<>>
  /\ grants = [t \in 0..MaxTime |-> 0]
  /\ shadow = [inst \in Instances |-> EmptyMap]
  /\ shadowRet = NoShadowRet

InitRL ==
  /\ LimitersStart
  /\ obsInst = "api"
  /\ CacheIdle

NextRL ==
  \/ \E inst \in Instances, identifier \in Identifiers :
       IsAllowed(inst, identifier) /\ UNCHANGED histVars /\ UNCHANGED <<cacheVars, handlerVars>>
  \/ \E inst \in Instances : Cleanup(inst) /\ UNCHANGED histVars /\ UNCHANGED <<cacheVars, handlerVars>>
  \/ Tick /\ UNCHANGED histVars /\ UNCHANGED <<cacheVars, handlerVars>>

SpecRL == InitRL /\ [][NextRL]_vars

\* One observed identifier of one instance, with the history of its calls.
ObsId == "ip1"

Record ==
  LET e == [t |-> now, result |-> rlRet']
  IN /\ trace' = IF rlSeen' = <<>> THEN <<e>>
                  ELSE IF Len(trace) > maxRequests(obsInst) + 1 THEN trace
                  ELSE Append(trace, e)
     /\ grants' = [grants EXCEPT ![now] = @ + (IF rlRet'.allowed THEN 1 ELSE 0)]
     /\ UNCHANGED <<obsInst, shadow, shadowRet>>

NextTrace ==
  \/ IsAllowed(obsInst, ObsId) /\ Record /\ UNCHANGED <<cacheVars, handlerVars>>
  \/ Cleanup(obsInst) /\ UNCHANGED histVars /\ UNCHANGED <<cacheVars, handlerVars>>
  \/ Tick /\ UNCHANGED histVars /\ UNCHANGED <<cacheVars, handlerVars>>

InitTrace ==
  /\ LimitersStart
  /\ obsInst \in Instances
  /\ CacheIdle

SpecTrace == InitTrace /\ [][NextTrace]_vars

\* ----------------------------------------------------- rate limiter claims
IsAllowedStep(inst, identifier) ==
  rlCall' = [op |-> "isAllowed", inst |-> inst, id |-> identifier]

\* C1: every stored entry has 1 <= count <= maxRequests of its instance.
CountWithinLimit ==
  \A inst \in Instances : \A k \in DOMAIN requests[inst] :
    /\ requests[inst][k].count >= 1
    /\ requests[inst][k].count <= maxRequests(inst)

\* A call has just been rejected on an entry whose count sits at the limit.
CountAtLimitReached ==
  /\ rlCall.op = "isAllowed"
  /\ ~rlRet.allowed
  /\ rlSeen # <<>>
  /\ requests[rlCall.inst][rlCall.id].count = maxRequests(rlCall.inst)

\* C2: from an identifier without entry, the calls made while the clock has
\* not passed the first call's resetTime return allowed with remaining
\* N-1, N-2, ..., 0 (calls 1..N) and then rejected with remaining 0 (call N+1).
FreshRunResults ==
  LET N == maxRequests(obsInst)
  IN \A i \in 1..Len(trace) :
       trace[i].t <= trace[1].result.resetTime =>
         /\ i <= N => /\ trace[i].result.allowed
                      /\ trace[i].result.remaining = N - i
         /\ i = N + 1 => /\ ~trace[i].result.allowed
                         /\ trace[i].result.remaining = 0

\* N+1 calls were made inside the first window of a fresh identifier.
FreshRunComplete ==
  LET N == maxRequests(obsInst)
  IN /\ Len(trace) >= N + 1
     /\ trace[N + 1].t <= trace[1].result.resetTime

\* C3: a call that finds an entry with now <= resetTime and count >= maxRequests
\* returns (false, 0, entry.resetTime) and changes no entry of the limiter.
RejectedCallIsFree ==
  [][\A inst \in Instances, k \in Identifiers :
       (/\ IsAllowedStep(inst, k)
        /\ k \in DOMAIN requests[inst]
        /\ now <= requests[inst][k].resetTime
        /\ requests[inst][k].count >= maxRequests(inst))
       => /\ rlRet' = [allowed |-> FALSE, remaining |-> 0,
                       resetTime |-> requests[inst][k].resetTime]
          /\ requests' = requests]_vars

\* A call was rejected at the very end of its window (now = resetTime).
RejectedAtWindowEnd ==
  /\ rlCall.op = "isAllowed"
  /\ rlSeen # <<>>
  /\ rlSeen[1].count >= maxRequests(rlCall.inst)
  /\ now = rlSeen[1].resetTime
  /\ ~rlRet.allowed

\* C4: a call at now > entry.resetTime replaces the entry by count 1,
\* resetTime now + windowMs and returns (true, maxRequests - 1); a call at
\* now = entry.resetTime is still counted in the old window.
WindowReset ==
  [][\A inst \in Instances, k \in Identifiers :
       (IsAllowedStep(inst, k) /\ k \in DOMAIN requests[inst]) =>
         LET e == requests[inst][k]
             N == maxRequests(inst)
         IN /\ now > e.resetTime =>
                 /\ requests'[inst][k] = [count |-> 1, resetTime |-> now + windowMs(inst)]
                 /\ rlRet' = [allowed |-> TRUE, remaining |-> N - 1,
                              resetTime |-> now + windowMs(inst)]
            /\ now = e.resetTime =>
                 /\ requests'[inst][k].resetTime = e.resetTime
                 /\ rlRet'.resetTime = e.resetTime
                 /\ IF e.count < N
                      THEN /\ requests'[inst][k].count = e.count + 1
                           /\ rlRet'.allowed
                           /\ rlRet'.remaining = N - (e.count + 1)
                      ELSE /\ requests'[inst][k].count = e.count
                           /\ ~rlRet'.allowed]_vars

\* A saturated entry whose window was over has been replaced by a fresh one.
SaturatedWindowReset ==
  /\ rlCall.op = "isAllowed"
  /\ rlSeen # <<>>
  /\ rlSeen[1].count = maxRequests(rlCall.inst)
  /\ now > rlSeen[1].resetTime
  /\ rlRet.allowed
  /\ requests[rlCall.inst][rlCall.id].count = 1

\* The restriction of a map to one key.
Own(m, k) == [x \in (DOMAIN m) \cap {k} |-> m[x]]

\* C5: isAllowed(id) on an instance leaves the entry of every other identifier
\* and every entry of the other instance as they were, and its result is the
\* one the identifier's own entry alone gives.
OthersUntouched ==
  [][\A inst \in Instances, k \in Identifiers :
       IsAllowedStep(inst, k) =>
         /\ \A i2 \in Instances, k2 \in Identifiers :
              (i2 # inst \/ k2 # k) =>
                /\ (k2 \in DOMAIN requests'[i2]) <=> (k2 \in DOMAIN requests[i2])
                /\ k2 \in DOMAIN requests[i2] => requests'[i2][k2] = requests[i2][k2]
         /\ rlRet' = isAllowed(inst, Own(requests[inst], k), k).result]_vars

\* A call started a new window while the other identifier of the instance and
\* the same identifier in the other instance both held an entry.
CallBesideOtherEntries ==
  /\ rlCall.op = "isAllowed"
  /\ rlRet.allowed
  /\ requests[rlCall.inst][rlCall.id].count = 1
  /\ \E k2 \in DOMAIN requests[rlCall.inst] : k2 # rlCall.id
  /\ \E i2 \in Instances : i2 # rlCall.inst /\ rlCall.id \in DOMAIN requests[i2]

\* Number of allowed calls of the observed identifier at times t0..t1.
RECURSIVE GrantsBetween(_, _)
GrantsBetween(t0, t1) ==
  IF t0 > t1 \/ t0 > MaxTime THEN 0 ELSE grants[t0] + GrantsBetween(t0 + 1, t1)

\* C6: in any interval of length at most windowMs the identifier is allowed
\* at most 2 x maxRequests times.
BurstBound ==
  \A t0 \in 0..MaxTime :
    GrantsBetween(t0, t0 + windowMs(obsInst)) <= 2 * maxRequests(obsInst)

\* An interval of length windowMs holds more grants than one window can give:
\* the burst straddles a window boundary.
BurstStraddlesWindows ==
  \E t0 \in 0..MaxTime :
    GrantsBetween(t0, t0 + windowMs(obsInst)) > maxRequests(obsInst)

\* ------------------------------------------- the limiter and its sweep
\* One limiter instance next to a limiter that takes the same calls and is
\* never swept.
Shadowed(inst, identifier) ==
  LET r == isAllowed(inst, shadow[inst], identifier)
  IN /\ IsAllowed(inst, identifier)
     /\ shadow' = [shadow EXCEPT ![inst] = r.map]
     /\ shadowRet' = [result |-> r.result, seen |-> identifier \in DOMAIN shadow[inst]]
     /\ UNCHANGED <<obsInst, trace, grants>>

InitSweep ==
  /\ LimitersStart
  /\ obsInst \in Instances
  /\ CacheIdle

NextSweep ==
  \/ \E identifier \in Identifiers :
       Shadowed(obsInst, identifier) /\ UNCHANGED <<cacheVars, handlerVars>>
  \/ Cleanup(obsInst) /\ UNCHANGED histVars /\ UNCHANGED <<cacheVars, handlerVars>>
  \/ Tick /\ UNCHANGED histVars /\ UNCHANGED <<cacheVars, handlerVars>>

SpecSweep == InitSweep /\ [][NextSweep]_vars

\* C25: cleanup deletes exactly the entries with now > resetTime and leaves
\* the others as they were, and every isAllowed call returns what it returns
\* from a limiter that took the same calls and was never swept.
SweepIsTransparent ==
  /\ [](rlRet = shadowRet.result)
  /\ [][rlCall'.op = "cleanup" =>
          \A inst \in Instances :
            IF inst = rlCall'.inst
              THEN /\ DOMAIN requests'[inst] =
                        {k \in DOMAIN requests[inst] : ~(now > requests[inst][k].resetTime)}
                   /\ \A k \in DOMAIN requests'[inst] : requests'[inst][k] = requests[inst][k]
              ELSE requests'[inst] = requests[inst]]_vars

\* A call found no entry for its identifier because cleanup had deleted it: the
\* limiter that was never swept still held the entry.
SweptEntryCalledAgain ==
  /\ rlCall.op = "isAllowed"
  /\ rlSeen = <<>>
  /\ shadowRet.seen

\* C26: every isAllowed result has remaining >= 0 and resetTime >= now; an
\* allowed result has remaining = maxRequests - count of the entry after the
\* call; the result's resetTime is the entry's, which a call inside the
\* window (now <= resetTime) leaves as the window's first call set it and a
\* call that opens a window sets to now + windowMs.
ResultConsistent ==
  /\ [](rlCall.op = "isAllowed" =>
          /\ rlRet.remaining >= 0
          /\ rlRet.resetTime >= now
          /\ rlRet.resetTime - now <= windowMs(rlCall.inst)
          /\ rlRet.resetTime = requests[rlCall.inst][rlCall.id].resetTime
          /\ rlRet.allowed =>
               rlRet.remaining =
                 maxRequests(rlCall.inst) - requests[rlCall.inst][rlCall.id].count)
  /\ [][\A inst \in Instances, k \in Identifiers :
          IsAllowedStep(inst, k) =>
            IF k \in DOMAIN requests[inst] /\ now <= requests[inst][k].resetTime
              THEN rlRet'.resetTime = requests[inst][k].resetTime
              ELSE rlRet'.resetTime = now + windowMs(inst)]_vars

\* A rejected call at the last instant of its window: Retry-After is 0, the
\* resetTime is the one the window's first call fixed.
RejectedResultAtWindowEnd ==
  /\ rlCall.op = "isAllowed"
  /\ ~rlRet.allowed
  /\ rlRet.remaining = 0
  /\ rlRet.resetTime = now
  /\ rlSeen # <<>>
  /\ rlSeen[1].resetTime = rlRet.resetTime

\* ------------------------------------------------------------------ cache
Null == "null"
\* Cached payloads: a plain string and a Date object (upstream rows carry Dates).
Data == {"str", "date"}
\* JSON.parse(JSON.stringify(data)): a Date comes back as its ISO string.
JSONstringify(data) == IF data = "date" THEN "iso" ELSE data
JSONparse(text) == text

\* Cache keys, as sequences of characters.
Keys == {<<"A", ":", "B">>, <<"A", "|", "B">>, <<"^", "C">>}
\* The keys one run works with: two keys whose file names collide, or two
\* keys with files of their own.
KeySets == {{<<"A", ":", "B">>, <<"A", "|", "B">>}, {<<"A", ":", "B">>, <<"^", "C">>}}

SafeChars ==
  {"a", "b", "c", "d", "e", "f", "g", "h", "i", "j", "k", "l", "m",
   "n", "o", "p", "q", "r", "s", "t", "u", "v", "w", "x", "y", "z",
   "A", "B", "C", "D", "E", "F", "G", "H", "I", "J", "K", "L", "M",
   "N", "O", "P", "Q", "R", "S", "T", "U", "V", "W", "X", "Y", "Z",
   "0", "1", "2", "3", "4", "5", "6", "7", "8", "9", ".", "_", "-"}

\* key.replaceAll(/[:|]/g, '-')
ReplaceSeparators(key) ==
  [i \in 1..Len(key) |-> IF key[i] \in {":", "|"} THEN "-" ELSE key[i]]
\* key.replaceAll(/[^a-zA-Z0-9._-]/g, '_')
ReplaceUnsafe(key) ==
  [i \in 1..Len(key) |-> IF key[i] \in SafeChars THEN key[i] ELSE "_"]
getCacheFilePath(key) == ReplaceUnsafe(ReplaceSeparators(key)) \o <<".json">>

\* File contents that are not a serialised entry: a file cut short (JSON.parse
\* throws), the JSON text null, and a JSON number.
TextTruncated == "{\"data\":"
TextNull == "null"
TextNumber == "5"
Garbage == {TextTruncated, TextNull, TextNumber}
\* (5).data
Undefined == "undefined"
\* undefined + ttlMs, for the timestamp of a value that has none. Every
\* comparison with NaN is false.
NaN == 0 - 1000

isEntryExpiredGe(entry) == now >= entry.timestamp + ttlMs
isEntryExpired(entry) == entry.timestamp # NaN /\ now > entry.timestamp + ttlMs

\* fs.unlinkSync throws while cacheDir is read-only; the catch ignores it.
deleteDiskEntry(d, key) ==
  IF persistenceEnabled /\ getCacheFilePath(key) \in DOMAIN d /\ ~readOnly
    THEN MapDelete(d, getCacheFilePath(key))
    ELSE d

\* The cache and disk after the call, and <<entry>> or <<>> for null.
loadFromDisk(c, d, key) ==
  LET filePath == getCacheFilePath(key)
  IN IF ~persistenceEnabled \/ filePath \notin DOMAIN d
       THEN [cache |-> c, disk |-> d, entry |-> <<>>]
     ELSE IF d[filePath].data = TextTruncated
       \* JSON.parse throws; the catch ignores it
       THEN [cache |-> c, disk |-> d, entry |-> <<>>]
     ELSE IF d[filePath].data = TextNull
       \* `entry &&` is false
       THEN [cache |-> c, disk |-> deleteDiskEntry(d, key), entry |-> <<>>]
       ELSE LET entry == IF d[filePath].data = TextNumber
                           THEN [data |-> Undefined, timestamp |-> NaN]
                           ELSE [data |-> JSONparse(d[filePath].data),
                                 timestamp |-> d[filePath].timestamp]
            IN IF ~isEntryExpired(entry)
                 THEN [cache |-> MapSet(c, key, entry), disk |-> d, entry |-> <<entry>>]
                 ELSE [cache |-> c, disk |-> deleteDiskEntry(d, key), entry |-> <<>>]

\* `this.cache.get(key) ?? this.loadFromDisk(key)`
lookup(c, d, key) ==
  IF key \in DOMAIN c
    THEN [cache |-> c, disk |-> d, entry |-> <<c[key]>>]
    ELSE loadFromDisk(c, d, key)

getKeepsExpired(c, d, key) ==
  IF ~enabled THEN [cache |-> c, disk |-> d, ret |-> Null]
  ELSE LET l == lookup(c, d, key)
       IN IF l.entry = <<>> \/ isEntryExpired(l.entry[1])
            THEN [cache |-> l.cache, disk |-> l.disk, ret |-> Null]
            ELSE [cache |-> l.cache, disk |-> l.disk, ret |-> l.entry[1].data]
get(c, d, key) ==
  IF ~enabled THEN [cache |-> c, disk |-> d, ret |-> Null]
  ELSE LET l == lookup(c, d, key)
       IN IF l.entry = <<>>
            THEN [cache |-> l.cache, disk |-> l.disk, ret |-> Null]
            ELSE IF isEntryExpired(l.entry[1])
              THEN [cache |-> MapDelete(l.cache, key),
                    disk |-> deleteDiskEntry(l.disk, key), ret |-> Null]
              ELSE [cache |-> l.cache, disk |-> l.disk, ret |-> l.entry[1].data]

\* writeOk: fs.writeFileSync did not throw.
setIgnoresEnabled(c, d, key, data, writeOk) ==
  LET entry == [data |-> data, timestamp |-> now]
  IN [cache |-> MapSet(c, key, entry),
      disk |-> IF persistenceEnabled /\ writeOk /\ ~readOnly
                 THEN MapSet(d, getCacheFilePath(key),
                             [data |-> JSONstringify(data), timestamp |-> now,
                              mtime |-> now])
                 ELSE d]
setKeepsExisting(c, d, key, data, writeOk) ==
  IF ~enabled \/ key \in DOMAIN c THEN [cache |-> c, disk |-> d]
  ELSE setIgnoresEnabled(c, d, key, data, writeOk)
set(c, d, key, data, writeOk) ==
  IF ~enabled THEN [cache |-> c, disk |-> d]
  ELSE LET entry == [data |-> data, timestamp |-> now]
       IN [cache |-> MapSet(c, key, entry),
           disk |-> IF persistenceEnabled /\ writeOk /\ ~readOnly
                      THEN MapSet(d, getCacheFilePath(key),
                                  [data |-> JSONstringify(data), timestamp |-> now,
                                   mtime |-> now])
                      ELSE d]

hasMemoryOnly(c, d, key) ==
  [cache |-> c, disk |-> d,
   ret |-> IF enabled /\ key \in DOMAIN c /\ ~isEntryExpired(c[key])
             THEN "true" ELSE "false"]
has(c, d, key) ==
  IF ~enabled THEN [cache |-> c, disk |-> d, ret |-> "false"]
  ELSE LET l == lookup(c, d, key)
       IN [cache |-> l.cache, disk |-> l.disk,
           ret |-> IF l.entry # <<>> /\ ~isEntryExpired(l.entry[1])
                     THEN "true" ELSE "false"]

isExpiredLoads(c, key) ==
  LET l == lookup(c, disk, key)
  IN IF l.entry = <<>> THEN "true"
     ELSE IF isEntryExpired(l.entry[1]) THEN "true" ELSE "false"
isExpired(c, key) ==
  IF key \notin DOMAIN c THEN "true"
  ELSE IF isEntryExpired(c[key]) THEN "true" ELSE "false"

\* The first unlinkSync that throws ends the loop: in a read-only cacheDir no
\* file is removed.
clear(c, d) ==
  [cache |-> EmptyMap,
   disk |-> IF persistenceEnabled /\ ~readOnly THEN EmptyMap ELSE d]

\* cleanupDisk(now): unlink the files whose mtime is older than the TTL.
cleanupDisk(d) ==
  LET keep == {f \in DOMAIN d : readOnly \/ ~(now > d[f].mtime + ttlMs)}
  IN [f \in keep |-> d[f]]

\* cleanup(): delete(key) for every expired entry in memory, then cleanupDisk.
cacheCleanup(c, d) ==
  LET expired == {k \in DOMAIN c : isEntryExpired(c[k])}
      gone == IF persistenceEnabled /\ ~readOnly
                THEN {getCacheFilePath(k) : k \in expired} ELSE {}
      d1 == [f \in (DOMAIN d) \ gone |-> d[f]]
  IN [cache |-> [k \in (DOMAIN c) \ expired |-> c[k]],
      disk |-> IF persistenceEnabled THEN cleanupDisk(d1) ELSE d1]

\* The step is the call op(key, data); justSet is the value the call before it
\* stored under the same key, "-" when that call was not a set of this key.
Called(op, key, data) ==
  /\ cCall' = [op |-> op, key |-> key, data |-> data,
               justSet |-> IF op = "get" /\ cCall.op = "set" /\ cCall.key = key
                             THEN cCall.data ELSE "-"]
  /\ UNCHANGED keysInUse

Get(key) ==
  LET r == get(cache, disk, key)
  IN /\ cache' = r.cache /\ disk' = r.disk /\ cRet' = r.ret
     /\ Called("get", key, "-")
     /\ UNCHANGED <<now, readOnly, enabled, persistenceEnabled, ttlMs>>

Set(key, data) ==
  \E writeOk \in (IF enabled /\ persistenceEnabled THEN BOOLEAN ELSE {TRUE}) :
    LET r == set(cache, disk, key, data, writeOk)
    IN /\ cache' = r.cache /\ disk' = r.disk /\ cRet' = "void"
       /\ Called("set", key, data)
       /\ UNCHANGED <<now, readOnly, enabled, persistenceEnabled, ttlMs>>

Has(key) ==
  LET r == has(cache, disk, key)
  IN /\ cache' = r.cache /\ disk' = r.disk /\ cRet' = r.ret
     /\ Called("has", key, "-")
     /\ UNCHANGED <<now, readOnly, enabled, persistenceEnabled, ttlMs>>

IsExpired(key) ==
  /\ cRet' = isExpired(cache, key)
  /\ Called("isExpired", key, "-")
  /\ UNCHANGED <<now, readOnly, enabled, persistenceEnabled, ttlMs, cache, disk>>

Clear ==
  LET r == clear(cache, disk)
  IN /\ cache' = r.cache /\ disk' = r.disk /\ cRet' = "void"
     /\ Called("clear", <<>>, "-")
     /\ UNCHANGED <<now, readOnly, enabled, persistenceEnabled, ttlMs>>

\* The hourly timer, installed only when the cache is enabled.
CacheCleanup ==
  /\ enabled
  /\ LET r == cacheCleanup(cache, disk)
     IN cache' = r.cache /\ disk' = r.disk
  /\ Called("cleanup", <<>>, "-")
  /\ UNCHANGED <<now, readOnly, enabled, persistenceEnabled, ttlMs, cRet>>

TtlChoices == (-1)..MaxTtl

\* A new process: the constructor reads the environment; the files stay.
Restart ==
  /\ enabled' \in BOOLEAN
  /\ persistenceEnabled' \in BOOLEAN
  /\ ttlMs' \in TtlChoices
  /\ cache' = EmptyMap
  /\ Called("restart", <<>>, "-")
  /\ UNCHANGED <<now, readOnly, disk, cRet>>

CacheTick ==
  /\ now < MaxCacheTime
  /\ now' = now + 1
  /\ Called("tick", <<>>, "-")
  /\ UNCHANGED <<readOnly, enabled, persistenceEnabled, ttlMs, cache, disk, cRet>>

\* The limiters of a process that only exercises its cache.
LimitersIdle ==
  /\ requests = [inst \in Instances |-> EmptyMap]
  /\ rlCall = NoCall
  /\ rlRet = NoRet
  /\ rlSeen = <<>>
  /\ obsInst = "api"
  /\ trace = <<>>
  /\ grants = [t \in 0..MaxTime |-> 0]
  /\ shadow = [inst \in Instances |-> EmptyMap]
  /\ shadowRet = NoShadowRet

InitCache ==
  /\ now = 0
  /\ enabled \in BOOLEAN
  /\ persistenceEnabled \in BOOLEAN
  /\ ttlMs \in TtlChoices
  /\ cache = EmptyMap
  /\ disk = EmptyMap
  /\ keysInUse \in KeySets
  /\ cCall = NoCacheCall
  /\ cRet = "void"
  /\ readOnly = FALSE
  /\ lastSet = [key \in Keys |-> "none"]
  /\ LimitersIdle
  /\ HandlersIdle

limiterVars == <<requests, rlCall, rlRet, rlSeen, obsInst, trace, grants, shadow, shadowRet>>

NextCache ==
  \/ \E key \in keysInUse : Get(key) /\ UNCHANGED <<limiterVars, handlerVars>> /\ UNCHANGED lastSet
  \/ \E key \in keysInUse, data \in Data : Set(key, data) /\ UNCHANGED <<limiterVars, handlerVars>> /\ UNCHANGED lastSet
  \/ \E key \in keysInUse : Has(key) /\ UNCHANGED <<limiterVars, handlerVars>> /\ UNCHANGED lastSet
  \/ \E key \in keysInUse : IsExpired(key) /\ UNCHANGED <<limiterVars, handlerVars>> /\ UNCHANGED lastSet
  \/ Clear /\ UNCHANGED <<limiterVars, handlerVars>> /\ UNCHANGED lastSet
  \/ CacheCleanup /\ UNCHANGED <<limiterVars, handlerVars>> /\ UNCHANGED lastSet
  \/ Restart /\ UNCHANGED <<limiterVars, handlerVars>> /\ UNCHANGED lastSet
  \/ CacheTick /\ UNCHANGED <<limiterVars, handlerVars>> /\ UNCHANGED lastSet

SpecCache == InitCache /\ [][NextCache]_vars

\* ------------------------------------------------------------ cache claims
\* What get(key), has(key) and isExpired(key) return when called in this state.
GetResult(key) == get(cache, disk, key).ret
HasResult(key) == has(cache, disk, key).ret
IsExpiredResult(key) == isExpired(cache, key)

\* The entry a read of key works with: the one in memory, else the one in the
\* key's file when persistence is enabled; <<>> when there is none.
EntryOf(key) ==
  IF key \in DOMAIN cache THEN <<cache[key]>>
  ELSE IF persistenceEnabled /\ getCacheFilePath(key) \in DOMAIN disk
    THEN <<[data |-> disk[getCacheFilePath(key)].data,
            timestamp |-> disk[getCacheFilePath(key)].timestamp]>>
    ELSE <<>>

\* C7: for an entry with now > timestamp + ttlMs, in memory or on disk, get
\* returns null, has returns false and isExpired returns true; at
\* now = timestamp + ttlMs the entry is still live.
ExpiredNeverRead ==
  \A key \in Keys :
    EntryOf(key) # <<>> =>
      LET entry == EntryOf(key)[1]
      IN /\ now > entry.timestamp + ttlMs =>
              /\ GetResult(key) = Null
              /\ HasResult(key) = "false"
              /\ IsExpiredResult(key) = "true"
         /\ (enabled /\ now = entry.timestamp + ttlMs) =>
              /\ GetResult(key) = entry.data
              /\ HasResult(key) = "true"
              /\ key \in DOMAIN cache => IsExpiredResult(key) = "false"

\* has(key) has just answered false for an expired entry still held in memory.
ExpiredEntryProbed ==
  /\ cCall.op = "has"
  /\ cRet = "false"
  /\ cCall.key \in DOMAIN cache
  /\ now > cache[cCall.key].timestamp + ttlMs

\* C8: with the cache enabled, get(k) called right after set(k, v), the clock
\* not past the TTL, returns v.
RoundTrip ==
  (cCall.op = "get" /\ cCall.justSet # "-" /\ enabled /\ ttlMs >= 0)
    => cRet = cCall.justSet

\* get(k) returned the value just set while k's file still holds another one
\* (the write of the set failed).
RoundTripOverStaleFile ==
  /\ cCall.op = "get"
  /\ cCall.justSet \in Data
  /\ cRet = cCall.justSet
  /\ persistenceEnabled
  /\ getCacheFilePath(cCall.key) \in DOMAIN disk
  /\ disk[getCacheFilePath(cCall.key)].data # JSONstringify(cCall.justSet)

\* C9: set(k1, v) never changes what get(k2) or has(k2) return for k2 # k1.
SetLeavesOtherKeys ==
  [][\A k1 \in Keys :
       (cCall'.op = "set" /\ cCall'.key = k1) =>
         \A k2 \in Keys \ {k1} :
           /\ GetResult(k2)' = GetResult(k2)
           /\ HasResult(k2)' = HasResult(k2)]_vars

\* While the cache is disabled the in-memory map is empty and every read misses.
DisabledReadsMiss ==
  ~enabled =>
    /\ cache = EmptyMap
    /\ \A key \in Keys : GetResult(key) = Null /\ HasResult(key) = "false"

\* C10: while the cache is disabled the in-memory map is empty, get returns
\* null and has returns false for every key in every reachable state, and set
\* changes neither memory nor disk.
DisabledCacheMisses ==
  /\ []DisabledReadsMiss
  /\ [][(~enabled /\ cCall'.op = "set") => (cache' = cache /\ disk' = disk)]_vars

\* set was called on a disabled cache while the key's file holds a live entry.
DisabledSetOverLiveFile ==
  /\ ~enabled
  /\ persistenceEnabled
  /\ cCall.op = "set"
  /\ getCacheFilePath(cCall.key) \in DOMAIN disk
  /\ now <= disk[getCacheFilePath(cCall.key)].timestamp + ttlMs

\* A non-expired entry for key is found, memory first and the key's file only
\* when memory has no entry for it.
LiveEntry(key) ==
  /\ EntryOf(key) # <<>>
  /\ ~(now > EntryOf(key)[1].timestamp + ttlMs)

\* C13: has(k) returns true if and only if the cache is enabled and a
\* non-expired entry for k is found in memory or, when memory has no entry for
\* k and persistence is enabled, in k's file; with an entry in memory has(k)
\* leaves the disk alone.
HasIffLiveEntry ==
  /\ [](\A key \in Keys :
          HasResult(key) = "true" <=> (enabled /\ LiveEntry(key)))
  /\ [][(cCall'.op = "has" /\ cCall'.key \in DOMAIN cache)
          => (disk' = disk /\ cache' = cache)]_vars

\* has(k) answered false for an expired entry in memory while k's file holds
\* a live one: memory is consulted first.
HasStopsAtMemory ==
  /\ cCall.op = "has"
  /\ cRet = "false"
  /\ enabled
  /\ persistenceEnabled
  /\ cCall.key \in DOMAIN cache
  /\ now > cache[cCall.key].timestamp + ttlMs
  /\ getCacheFilePath(cCall.key) \in DOMAIN disk
  /\ now <= disk[getCacheFilePath(cCall.key)].timestamp + ttlMs

\* C14: isExpired(k) is true when memory has no entry for k, whatever k's file
\* holds, and otherwise now > timestamp + ttlMs of the entry in memory; the
\* call changes neither memory nor disk.
IsExpiredMemoryOnly ==
  /\ [](\A key \in Keys :
          IsExpiredResult(key) = "true"
            <=> (key \notin DOMAIN cache \/ now > cache[key].timestamp + ttlMs))
  /\ [][cCall'.op = "isExpired"
          => /\ cRet' = IsExpiredResult(cCall'.key)
             /\ cache' = cache
             /\ disk' = disk]_vars

\* isExpired(k) answered true while k's file holds a live entry that get(k)
\* would return.
IsExpiredOverLiveFile ==
  /\ cCall.op = "isExpired"
  /\ cRet = "true"
  /\ enabled
  /\ persistenceEnabled
  /\ cCall.key \notin DOMAIN cache
  /\ getCacheFilePath(cCall.key) \in DOMAIN disk
  /\ now <= disk[getCacheFilePath(cCall.key)].timestamp + ttlMs
  /\ GetResult(cCall.key) # Null

\* C15: a get(k) that finds the entry of k expired leaves k absent from memory
\* and, with persistence, k's file absent from disk; a get(k) that returns a
\* value removes no entry and no file.
GetRemovesExpired ==
  [][(enabled /\ cCall'.op = "get") =>
       LET key == cCall'.key
       IN /\ (EntryOf(key) # <<>> /\ ~LiveEntry(key)) =>
               /\ cRet' = Null
               /\ key \notin DOMAIN cache'
               /\ persistenceEnabled => getCacheFilePath(key) \notin DOMAIN disk'
          /\ cRet' # Null =>
               /\ disk' = disk
               /\ \A k \in DOMAIN cache : k \in DOMAIN cache' /\ cache'[k] = cache[k]]_vars

\* get(k) right after set(k, v) found the entry already expired (ttlMs < 0)
\* and removed it from memory and disk.
GetRemovedJustSet ==
  /\ cCall.op = "get"
  /\ cCall.justSet \in Data
  /\ cRet = Null
  /\ enabled
  /\ persistenceEnabled
  /\ cCall.key \notin DOMAIN cache
  /\ getCacheFilePath(cCall.key) \notin DOMAIN disk

\* C16: with persistence enabled and k's file written by set(k, v) at time t,
\* the first get(k) of a restarted process (k not in memory) at now <= t + ttlMs
\* returns v and leaves k in memory with data v and timestamp t, so that
\* isExpired(k) is false.
RehydrationReturnsValue ==
  [][(enabled /\ persistenceEnabled /\ cCall'.op = "get") =>
       LET key == cCall'.key
           filePath == getCacheFilePath(key)
       IN (/\ key \notin DOMAIN cache
           /\ filePath \in DOMAIN disk
           /\ now <= disk[filePath].timestamp + ttlMs) =>
            \A v \in Data :
              disk[filePath].data = JSONstringify(v) =>
                /\ cRet' = v
                /\ key \in DOMAIN cache'
                /\ cache'[key] = [data |-> v, timestamp |-> disk[filePath].timestamp]
                /\ isExpired(cache', key) = "false"]_vars

\* C24: a run of the hourly cleanup removes from memory exactly the entries
\* that are expired, removes from disk only files that hold an expired entry
\* (the files of the expired keys and the files with mtime + ttlMs < now), and
\* changes the result of no later get, has or isExpired.
SweepRemovesOnlyExpired ==
  [][cCall'.op = "cleanup" =>
       /\ DOMAIN cache' = {k \in DOMAIN cache : ~(now > cache[k].timestamp + ttlMs)}
       /\ \A k \in DOMAIN cache' : cache'[k] = cache[k]
       /\ \A f \in DOMAIN disk :
            IF f \in DOMAIN disk'
              THEN /\ disk'[f] = disk[f]
                   /\ persistenceEnabled => ~(now > disk[f].mtime + ttlMs)
              ELSE /\ persistenceEnabled
                   /\ now > disk[f].timestamp + ttlMs
       /\ DOMAIN disk' \subseteq DOMAIN disk
       /\ \A key \in Keys :
            /\ GetResult(key)' = GetResult(key)
            /\ HasResult(key)' = HasResult(key)
            /\ IsExpiredResult(key)' = IsExpiredResult(key)]_vars

\* C27: while the cache is disabled no operation and no timer changes a file
\* of cacheDir, whatever persistenceEnabled is.
DisabledNeverTouchesDisk ==
  [][(~enabled /\ cCall'.op \in {"get", "set", "has", "isExpired", "clear", "cleanup"})
       => disk' = disk]_vars

\* ------------------------------------------------------- a failing disk
\* Another program (or a crash in the middle of a write) leaves text in key's
\* file that is not a serialised entry.
Tamper(key, text) ==
  /\ disk' = MapSet(disk, getCacheFilePath(key),
                    [data |-> text, timestamp |-> 0, mtime |-> now])
  /\ Called("tamper", key, "-")
  /\ UNCHANGED <<now, readOnly, enabled, persistenceEnabled, ttlMs, cache, cRet>>

\* cacheDir becomes read-only, or writable again.
Remount ==
  /\ readOnly' = ~readOnly
  /\ Called("remount", <<>>, "-")
  /\ UNCHANGED <<now, enabled, persistenceEnabled, ttlMs, cache, disk, cRet>>

FaultKey == <<"^", "C">>

InitFault ==
  /\ now = 0
  /\ enabled \in BOOLEAN
  /\ persistenceEnabled \in BOOLEAN
  /\ ttlMs \in TtlChoices
  /\ cache = EmptyMap
  /\ disk = EmptyMap
  /\ keysInUse = {FaultKey}
  /\ cCall = NoCacheCall
  /\ cRet = "void"
  /\ readOnly \in BOOLEAN
  /\ lastSet = [key \in Keys |-> "none"]
  /\ LimitersIdle
  /\ HandlersIdle

NextFault ==
  \/ \E key \in keysInUse : Get(key) /\ UNCHANGED lastSet /\ UNCHANGED <<limiterVars, handlerVars>>
  \/ \E key \in keysInUse, data \in Data :
       Set(key, data) /\ UNCHANGED lastSet /\ UNCHANGED <<limiterVars, handlerVars>>
  \/ \E key \in keysInUse : Has(key) /\ UNCHANGED lastSet /\ UNCHANGED <<limiterVars, handlerVars>>
  \/ \E key \in keysInUse : IsExpired(key) /\ UNCHANGED lastSet /\ UNCHANGED <<limiterVars, handlerVars>>
  \/ Clear /\ UNCHANGED lastSet /\ UNCHANGED <<limiterVars, handlerVars>>
  \/ CacheCleanup /\ UNCHANGED lastSet /\ UNCHANGED <<limiterVars, handlerVars>>
  \/ Restart /\ UNCHANGED lastSet /\ UNCHANGED <<limiterVars, handlerVars>>
  \/ CacheTick /\ UNCHANGED lastSet /\ UNCHANGED <<limiterVars, handlerVars>>
  \/ \E key \in keysInUse, text \in Garbage :
       Tamper(key, text) /\ UNCHANGED lastSet /\ UNCHANGED <<limiterVars, handlerVars>>
  \/ Remount /\ UNCHANGED lastSet /\ UNCHANGED <<limiterVars, handlerVars>>

SpecFault == InitFault /\ [][NextFault]_vars

\* C17: when a disk step fails the operation completes with a miss or as a
\* no-op: a get or has that reads a file holding no serialised entry returns
\* null or false, a set whose write fails still stores the entry in memory, a
\* clear whose unlink fails still empties memory, and a failed write or unlink
\* leaves the files as they were.
DiskFailureIsMiss ==
  [][LET key == cCall'.key
         filePath == getCacheFilePath(key)
     IN /\ (/\ cCall'.op \in {"get", "has"}
            /\ enabled /\ persistenceEnabled
            /\ key \notin DOMAIN cache
            /\ filePath \in DOMAIN disk
            /\ disk[filePath].data \in Garbage)
           => cRet' \in {Null, "false"}
        /\ (cCall'.op = "set" /\ enabled)
           => cache'[key] = [data |-> cCall'.data, timestamp |-> now]
        /\ cCall'.op = "clear" => cache' = EmptyMap
        /\ (cCall'.op \in {"get", "set", "has", "clear", "cleanup"} /\ readOnly)
           => disk' = disk]_vars

\* ------------------------------------------------- one run of one process
\* The .json files an earlier process may have left in cacheDir.
LeftOver ==
  {EmptyMap,
   [f \in {getCacheFilePath(<<"A", ":", "B">>)} |->
      [data |-> "str", timestamp |-> 0, mtime |-> 0]]}

InitCacheRun ==
  /\ now = 0
  /\ enabled \in BOOLEAN
  /\ persistenceEnabled \in BOOLEAN
  /\ ttlMs \in TtlChoices
  /\ cache = EmptyMap
  /\ disk \in LeftOver
  /\ keysInUse \in KeySets
  /\ cCall = NoCacheCall
  /\ cRet = "void"
  /\ readOnly = FALSE
  /\ lastSet = [key \in Keys |-> "none"]
  /\ LimitersIdle
  /\ HandlersIdle

\* The calls of one process, with the history of its writes.
NextCacheRun ==
  \/ \E key \in keysInUse : Get(key) /\ UNCHANGED lastSet /\ UNCHANGED <<limiterVars, handlerVars>>
  \/ \E key \in keysInUse, data \in Data :
       /\ Set(key, data)
       /\ lastSet' = [lastSet EXCEPT ![key] = data]
       /\ UNCHANGED <<limiterVars, handlerVars>>
  \/ \E key \in keysInUse : Has(key) /\ UNCHANGED lastSet /\ UNCHANGED <<limiterVars, handlerVars>>
  \/ \E key \in keysInUse : IsExpired(key) /\ UNCHANGED lastSet /\ UNCHANGED <<limiterVars, handlerVars>>
  \/ /\ Clear
     /\ lastSet' = [key \in Keys |-> "cleared"]
     /\ UNCHANGED <<limiterVars, handlerVars>>
  \/ CacheCleanup /\ UNCHANGED lastSet /\ UNCHANGED <<limiterVars, handlerVars>>
  \/ CacheTick /\ UNCHANGED lastSet /\ UNCHANGED <<limiterVars, handlerVars>>

SpecCacheRun == InitCacheRun /\ [][NextCacheRun]_vars

\* C11: after clear(), get(k) returns null and has(k) returns false for every
\* key k, until k is set again.
ClearedKeysMiss ==
  \A key \in Keys :
    lastSet[key] = "cleared" =>
      GetResult(key) = Null /\ HasResult(key) = "false"

\* C12: last write wins: a get(k) that returns a value returns the value of
\* the last set(k, v) of the process.
LastWriteWins ==
  \A key \in Keys :
    (lastSet[key] \in Data /\ GetResult(key) # Null)
      => GetResult(key) = lastSet[key]

\* ------------------------------------------ one key across process restarts
\* One key with a file of its own, set and read by a sequence of processes;
\* writes may fail. lastSet holds the value of the last set an enabled cache
\* performed.
InitCacheLife ==
  /\ now = 0
  /\ enabled \in BOOLEAN
  /\ persistenceEnabled \in BOOLEAN
  /\ ttlMs \in TtlChoices
  /\ cache = EmptyMap
  /\ disk = EmptyMap
  /\ keysInUse = {FaultKey}
  /\ cCall = NoCacheCall
  /\ cRet = "void"
  /\ readOnly = FALSE
  /\ lastSet = [key \in Keys |-> "none"]
  /\ LimitersIdle
  /\ HandlersIdle

NextCacheLife ==
  \/ \E key \in keysInUse : Get(key) /\ UNCHANGED lastSet /\ UNCHANGED <<limiterVars, handlerVars>>
  \/ \E key \in keysInUse, data \in Data :
       /\ Set(key, data)
       /\ lastSet' = IF enabled THEN [lastSet EXCEPT ![key] = data] ELSE lastSet
       /\ UNCHANGED <<limiterVars, handlerVars>>
  \/ \E key \in keysInUse : Has(key) /\ UNCHANGED lastSet /\ UNCHANGED <<limiterVars, handlerVars>>
  \/ /\ Clear
     /\ lastSet' = [key \in Keys |-> "cleared"]
     /\ UNCHANGED <<limiterVars, handlerVars>>
  \/ CacheCleanup /\ UNCHANGED lastSet /\ UNCHANGED <<limiterVars, handlerVars>>
  \/ Restart /\ UNCHANGED lastSet /\ UNCHANGED <<limiterVars, handlerVars>>
  \/ CacheTick /\ UNCHANGED lastSet /\ UNCHANGED <<limiterVars, handlerVars>>

SpecCacheLife == InitCacheLife /\ [][NextCacheLife]_vars

\* get(key) returns a value, and it is the value of the last set(key, v), as
\* it is or as it comes back from its file.
ReturnsLastSet(key) ==
  (lastSet[key] \in Data /\ GetResult(key) # Null)
    => JSONstringify(GetResult(key)) = JSONstringify(lastSet[key])

\* C28: get(k) never returns a value older than the one of the most recent
\* set(k, v), and whenever memory and k's file both hold an entry for k the
\* two entries are the same.
NoStaleResurrection ==
  \A key \in Keys :
    /\ ReturnsLastSet(key)
    /\ (persistenceEnabled /\ key \in DOMAIN cache
          /\ getCacheFilePath(key) \in DOMAIN disk) =>
         /\ disk[getCacheFilePath(key)].data = JSONstringify(cache[key].data)
         /\ disk[getCacheFilePath(key)].timestamp = cache[key].timestamp

\* --------------------------------------------------------------- handlers
\* The handlers with a cache in front of their upstream source. The options
\* handler has the steps of the historical one (strictRateLimiter, a key that
\* holds today's date, an ETag) and is not modelled apart. Here an upstream
\* call is one step from its await to its result, with one request in flight
\* per endpoint; the promise chain of YahooFinanceService and requests that
\* wait in it are modelled further below.
Endpoints == {"historical", "statements"}
limiterOf(endpoint) == IF endpoint = "statements" THEN "api" ELSE "strict"

\* new Date().toISOString().split('T')[0]
today == now \div DayTicks

\* The x-forwarded-for and x-real-ip headers clients send ("null": absent).
HeaderSets ==
  {[xff |-> "ip1", xri |-> "ip2"],
   [xff |-> Null, xri |-> "ip1"],
   [xff |-> Null, xri |-> Null]}
\* The ticker parameter: absent, refused by the service's validation, valid.
Tickers == {Null, "bad", "T"}

\* The field names clients ask for, in the order localeCompare gives them.
FieldOrder == <<"close", "open">>
localeCompare(a, b) ==
  (CHOOSE i \in 1..Len(FieldOrder) : FieldOrder[i] = a)
    - (CHOOSE i \in 1..Len(FieldOrder) : FieldOrder[i] = b)
\* [...fields].sort((a, b) => a.localeCompare(b))
RECURSIVE sort(_)
sort(fields) ==
  IF fields = <<>> THEN <<>>
  ELSE LET rest == sort(Tail(fields))
           before == SelectSeq(rest, LAMBDA x : localeCompare(x, Head(fields)) <= 0)
           after == SelectSeq(rest, LAMBDA x : localeCompare(x, Head(fields)) > 0)
       IN before \o <<Head(fields)>> \o after
\* names.join(',')
RECURSIVE join(_)
join(names) ==
  IF Len(names) <= 1 THEN names
  ELSE <<Head(names), ",">> \o join(Tail(names))
\* `fields ? [...fields].sort(...).join(',') : 'all'`; <<>> is an absent parameter
sortedFields(fields) == IF fields = <<>> THEN <<"all">> ELSE join(sort(fields))

\* `hist:${today}:${ticker}:...:${sortedFields}` and buildCacheKey's
\* parts.join(':'). The requests explored share from, to and interval, and
\* those to the statements endpoint name no period, limit or fields.
cacheKey(endpoint, day, ticker, fields) ==
  IF endpoint = "statements"
    THEN <<"statements", ":", ticker>>
    ELSE <<"hist", ":", ToString(day), ":", ticker, ":">> \o sortedFields(fields)
\* `"${Buffer.from(cacheKey).toString('base64')}"`
etag(key) == <<"base64">> \o key

\* The ETag a response of day 0 carried for ticker T and the fields close, open.
EtagOfDay0 == etag(<<"hist", ":", "0", ":", "T", ":", "close", ",", "open">>)

\* The requests explored: the statements endpoint with both headers and with
\* x-real-ip alone, the historical endpoint without either, with every kind of
\* ticker, and with an If-None-Match header and the fields in another order.
Requests ==
  {[endpoint |-> "statements", xff |-> h.xff, xri |-> h.xri, ticker |-> t,
    fields |-> <<>>, ifNoneMatch |-> <<>>] :
      h \in {x \in HeaderSets : x.xri # Null}, t \in {"T", "bad"}}
  \cup
  {[endpoint |-> "historical", xff |-> Null, xri |-> Null, ticker |-> t,
    fields |-> <<"close", "open">>, ifNoneMatch |-> <<>>] : t \in Tickers}
  \cup
  {[endpoint |-> "historical", xff |-> Null, xri |-> Null, ticker |-> "T",
    fields |-> <<"open", "close">>, ifNoneMatch |-> EtagOfDay0]}

\* request.headers.get('x-forwarded-for') ?? request.headers.get('x-real-ip') ?? 'unknown'
clientIp(request) ==
  IF request.xff # Null THEN request.xff
  ELSE IF request.xri # Null THEN request.xri
  ELSE "unknown"

\* `!ticker` and the service's validation of the parameters
isValid(request) == request.ticker \notin {Null, "bad"}

RateLimitHeaders == {"X-RateLimit-Limit", "X-RateLimit-Remaining", "X-RateLimit-Reset"}
\* buildHeaders(rateLimit, etag, cacheStatus) and the headers of statementsHandler
buildHeaders(endpoint, cacheStatus) ==
  RateLimitHeaders
    \cup {"Access-Control-Allow-Origin", "Cache-Control"}
    \cup (IF endpoint = "statements" THEN {} ELSE {"ETag"})
    \cup (IF cacheStatus = "-" THEN {} ELSE {"X-Cache", "Content-Type"})

TooManyRequests(rateLimit) ==
  [status |-> 429, headers |-> RateLimitHeaders \cup {"Retry-After"},
   xCache |-> "-", body |-> "Too many requests"]
\* The historical handler answers 400 without headers, buildErrorResponse of
\* the statements handler adds the rate-limit headers.
BadRequest(endpoint) ==
  [status |-> 400,
   headers |-> IF endpoint = "statements" THEN RateLimitHeaders ELSE {},
   xCache |-> "-", body |-> "error"]
NotModified(endpoint) ==
  [status |-> 304, headers |-> buildHeaders(endpoint, "-"),
   xCache |-> "-", body |-> "-"]
Ok(endpoint, cacheStatus, data) ==
  [status |-> 200, headers |-> buildHeaders(endpoint, cacheStatus),
   xCache |-> cacheStatus, body |-> data]
\* What the upstream call throws: an error that carries the upstream's HTTP
\* response (status 503), a timeout (code ETIMEDOUT), Alpha Vantage's
\* rate-limit Note.
Errors == {"response", "timeout", "note"}
\* handleHistoricalError(error); handleHandlerError(error) after fetchStatement
\* has turned axios errors into plain Errors
errorStatus(endpoint, error) ==
  IF endpoint = "statements"
    THEN IF error = "note" THEN 429 ELSE 500
    ELSE IF error = "response" THEN 503
         ELSE IF error = "timeout" THEN 408 ELSE 500
UpstreamError(endpoint, error) ==
  [status |-> errorStatus(endpoint, error), headers |-> {}, xCache |-> "-",
   body |-> "error"]

\* What a handler has done when it responds or awaits its upstream call
\* (await = TRUE): the limiter map and the cache it leaves, the steps it ran
\* and its response.
Outcome(rl, c, key, steps, response, await) ==
  [map |-> rl.map, rateLimit |-> rl.result, cache |-> c, key |-> key,
   steps |-> steps, response |-> response, await |-> await]

admittedSkipsCache(request, rl, before) ==
  LET key == cacheKey(request.endpoint, today, request.ticker, request.fields)
      checksEtag == request.endpoint # "statements"
      upTo == IF checksEtag THEN before \o <<"etag">> ELSE before
  IN IF ~isValid(request)
       THEN Outcome(rl, cache, <<>>, before \o <<"respond">>,
                    BadRequest(request.endpoint), FALSE)
     ELSE IF checksEtag /\ request.ifNoneMatch = etag(key)
       THEN Outcome(rl, cache, key, upTo \o <<"respond">>,
                    NotModified(request.endpoint), FALSE)
       ELSE Outcome(rl, cache, key, upTo \o <<"cache.get", "upstream">>,
                    NoResponse, TRUE)
admittedEtagAfterCache(request, rl, before) ==
  LET key == cacheKey(request.endpoint, today, request.ticker, request.fields)
      cached == get(cache, disk, key)
      checksEtag == request.endpoint # "statements"
      upTo == IF checksEtag THEN before \o <<"cache.get", "etag">>
              ELSE before \o <<"cache.get">>
  IN IF ~isValid(request)
       THEN Outcome(rl, cache, <<>>, before \o <<"respond">>,
                    BadRequest(request.endpoint), FALSE)
     ELSE IF cached.ret # Null
       THEN Outcome(rl, cached.cache, key, before \o <<"cache.get", "respond">>,
                    Ok(request.endpoint, "HIT", cached.ret), FALSE)
     ELSE IF checksEtag /\ request.ifNoneMatch = etag(key)
       THEN Outcome(rl, cached.cache, key, upTo \o <<"respond">>,
                    NotModified(request.endpoint), FALSE)
       ELSE Outcome(rl, cached.cache, key, upTo \o <<"upstream">>,
                    NoResponse, TRUE)
\* The handler after the rate limit let the request pass: validation, ETag
\* (not in statementsHandler), cache, upstream.
admitted(request, rl, before) ==
  LET key == cacheKey(request.endpoint, today, request.ticker, request.fields)
      cached == get(cache, disk, key)
      checksEtag == request.endpoint # "statements"
      upTo == IF checksEtag THEN before \o <<"etag">> ELSE before
  IN IF ~isValid(request)
       THEN Outcome(rl, cache, <<>>, before \o <<"respond">>,
                    BadRequest(request.endpoint), FALSE)
     ELSE IF checksEtag /\ request.ifNoneMatch = etag(key)
       THEN Outcome(rl, cache, key, upTo \o <<"respond">>,
                    NotModified(request.endpoint), FALSE)
     ELSE IF cached.ret # Null
       THEN Outcome(rl, cached.cache, key, upTo \o <<"cache.get", "respond">>,
                    Ok(request.endpoint, "HIT", cached.ret), FALSE)
       ELSE Outcome(rl, cached.cache, key, upTo \o <<"cache.get", "upstream">>,
                    NoResponse, TRUE)

receiveValidatesFirst(request) ==
  LET inst == limiterOf(request.endpoint)
      rl == isAllowed(inst, requests[inst], clientIp(request))
  IN IF ~isValid(request)
       THEN Outcome([map |-> requests[inst], result |-> NoRet], cache, <<>>,
                    <<"validate", "respond">>, BadRequest(request.endpoint), FALSE)
     ELSE IF ~rl.result.allowed
       THEN Outcome(rl, cache, <<>>, <<"validate", "ratelimit", "respond">>,
                    TooManyRequests(rl.result), FALSE)
       ELSE admitted(request, rl, <<"validate", "ratelimit">>)
receiveRealIpFirst(request) ==
  LET inst == limiterOf(request.endpoint)
      ip == IF request.xri # Null THEN request.xri
            ELSE IF request.xff # Null THEN request.xff ELSE "unknown"
      rl == isAllowed(inst, requests[inst], ip)
  IN IF ~rl.result.allowed
       THEN Outcome(rl, cache, <<>>, <<"ratelimit", "respond">>,
                    TooManyRequests(rl.result), FALSE)
       ELSE admitted(request, rl, <<"ratelimit", "validate">>)
receive(request) ==
  LET inst == limiterOf(request.endpoint)
      rl == isAllowed(inst, requests[inst], clientIp(request))
  IN IF ~rl.result.allowed
       THEN Outcome(rl, cache, <<>>, <<"ratelimit", "respond">>,
                    TooManyRequests(rl.result), FALSE)
       ELSE admitted(request, rl, <<"ratelimit", "validate">>)

\* A request arrives and its handler runs to its response or its await.
Receive(request) ==
  LET r == receive(request)
      call == [op |-> "receive", request |-> request,
               allowed |-> r.rateLimit.allowed, key |-> r.key,
               steps |-> r.steps, response |-> r.response]
  IN /\ r.await => pending[request.endpoint] = <<>>
     /\ requests' = [requests EXCEPT ![limiterOf(request.endpoint)] = r.map]
     /\ cache' = r.cache
     /\ pending' = IF r.await THEN [pending EXCEPT ![request.endpoint] = <<call>>]
                   ELSE pending
     /\ hCall' = call
     /\ UNCHANGED <<now, lastMiss>>

\* The upstream call of the pending request returns data: the handler stores
\* it under the key computed when the request arrived, and responds.
Resolve(endpoint, data) ==
  /\ pending[endpoint] # <<>>
  /\ LET p == pending[endpoint][1]
         stored == set(cache, disk, p.key, data, TRUE)
     IN /\ cache' = stored.cache
        /\ hCall' = [p EXCEPT !.op = "resolve",
                              !.steps = @ \o <<"cache.set", "respond">>,
                              !.response = Ok(endpoint, "MISS", data)]
        /\ lastMiss' = [lastMiss EXCEPT ![endpoint] = [at |-> now, key |-> p.key]]
  /\ pending' = [pending EXCEPT ![endpoint] = <<>>]
  /\ UNCHANGED <<now, requests>>

FailCachesError(endpoint, error) ==
  /\ pending[endpoint] # <<>>
  /\ hCall' = [pending[endpoint][1] EXCEPT !.op = "fail",
                                           !.steps = @ \o <<"respond">>,
                                           !.response = UpstreamError(endpoint, error)]
  /\ cache' = set(cache, disk, pending[endpoint][1].key, "error", TRUE).cache
  /\ pending' = [pending EXCEPT ![endpoint] = <<>>]
  /\ UNCHANGED <<now, requests, lastMiss>>
\* The upstream call of the pending request fails: the catch builds the response.
Fail(endpoint, error) ==
  /\ pending[endpoint] # <<>>
  /\ hCall' = [pending[endpoint][1] EXCEPT !.op = "fail",
                                           !.steps = @ \o <<"respond">>,
                                           !.response = UpstreamError(endpoint, error)]
  /\ pending' = [pending EXCEPT ![endpoint] = <<>>]
  /\ UNCHANGED <<now, requests, cache, lastMiss>>

HandlerTick ==
  /\ now < MaxHandlerTime
  /\ now' = now + 1
  /\ hCall' = [NoHandlerCall EXCEPT !.op = "tick"]
  /\ UNCHANGED <<requests, cache, pending, lastMiss>>

NeverStored == [at |-> 0 - 1000, key |-> <<>>]

InitHandler ==
  /\ now = 0
  /\ requests = [inst \in Instances |-> EmptyMap]
  /\ rlCall = NoCall
  /\ rlRet = NoRet
  /\ rlSeen = <<>>
  /\ obsInst = "api"
  /\ trace = <<>>
  /\ grants = [t \in 0..MaxTime |-> 0]
  /\ shadow = [inst \in Instances |-> EmptyMap]
  /\ shadowRet = NoShadowRet
  /\ enabled \in BOOLEAN
  /\ persistenceEnabled = FALSE
  /\ ttlMs = MaxTtl
  /\ cache = EmptyMap
  /\ disk = EmptyMap
  /\ keysInUse = {}
  /\ cCall = NoCacheCall
  /\ cRet = "void"
  /\ readOnly = FALSE
  /\ lastSet = <<>>
  /\ pending = [endpoint \in Endpoints |-> <<>>]
  /\ hCall = NoHandlerCall
  /\ lastMiss = [endpoint \in Endpoints |-> NeverStored]
  /\ tasks = <<>>
  /\ queue = 0
  /\ started = <<>>

\* What the handlers leave alone.
handlerFrame ==
  <<rlCall, rlRet, rlSeen, obsInst, trace, grants, shadow, shadowRet, enabled, persistenceEnabled,
    ttlMs, disk, keysInUse, cCall, cRet, readOnly, lastSet, tasks, queue, started>>

NextHandler ==
  \/ \E request \in Requests : Receive(request) /\ UNCHANGED handlerFrame
  \/ \E endpoint \in Endpoints, data \in Data :
       Resolve(endpoint, data) /\ UNCHANGED handlerFrame
  \/ \E endpoint \in Endpoints, error \in Errors :
       Fail(endpoint, error) /\ UNCHANGED handlerFrame
  \/ HandlerTick /\ UNCHANGED handlerFrame

SpecHandler == InitHandler /\ [][NextHandler]_vars

\* ---------------------------------------------------------- handler claims
Rank(order, step) == CHOOSE i \in 1..Len(order) : order[i] = step
\* The steps named in order occur in steps in the order it gives.
InOrder(steps, order) ==
  LET named == SelectSeq(steps, LAMBDA x : \E i \in 1..Len(order) : order[i] = x)
  IN \A i, j \in 1..Len(named) :
       i < j => Rank(order, named[i]) < Rank(order, named[j])
Has_(steps, step) == \E i \in 1..Len(steps) : steps[i] = step
\* The steps of the request handled last and of the requests still awaiting
\* their upstream call.
StepsRun ==
  {hCall.steps} \cup {pending[e][1].steps : e \in {x \in DOMAIN pending : pending[x] # <<>>}}

\* C18: a handler runs its steps in the order validate, rate limit, cache,
\* upstream, store, respond, and a request that fails validation does not
\* reach the rate-limit check.
StepsInClaimedOrder ==
  /\ \A steps \in StepsRun :
       InOrder(steps, <<"validate", "ratelimit", "cache.get", "upstream",
                        "cache.set", "respond">>)
  /\ (hCall.op = "receive" /\ ~isValid(hCall.request))
       => ~Has_(hCall.steps, "ratelimit")

\* The count isAllowed leaves for identifier in map m.
CountAfter(inst, m, identifier) ==
  IF identifier \in DOMAIN m /\ ~(now > m[identifier].resetTime)
    THEN m[identifier].count + 1
    ELSE 1

\* C18, amended: a handler runs its steps in the order rate limit, validate,
\* cache, upstream, store, respond, each step only if the earlier ones passed;
\* a request that fails validation has passed the rate-limit check and
\* consumed one unit of quota, and reaches neither cache nor upstream.
StepsInCodeOrder ==
  /\ [](/\ \A steps \in StepsRun :
             InOrder(steps, <<"ratelimit", "validate", "cache.get", "upstream",
                              "cache.set", "respond">>)
        /\ hCall.op \in {"receive", "resolve", "fail"} =>
             /\ hCall.steps[1] = "ratelimit"
             /\ Has_(hCall.steps, "validate") <=> hCall.allowed
             /\ Has_(hCall.steps, "cache.get") => isValid(hCall.request)
             /\ Has_(hCall.steps, "upstream") => Has_(hCall.steps, "cache.get")
             /\ Has_(hCall.steps, "cache.set") <=> hCall.op = "resolve"
             /\ Has_(hCall.steps, "respond") <=> hCall.response # NoResponse)
  /\ [][(hCall'.op = "receive" /\ hCall'.allowed /\ ~isValid(hCall'.request)) =>
          LET inst == limiterOf(hCall'.request.endpoint)
              ip == clientIp(hCall'.request)
          IN /\ requests'[inst][ip].count = CountAfter(inst, requests[inst], ip)
             /\ hCall'.response.status = 400
             /\ cache' = cache
             /\ pending' = pending]_vars

\* A request without a valid ticker was answered 400 after it took the last
\* unit of its client's quota.
InvalidRequestTookQuota ==
  /\ hCall.op = "receive"
  /\ ~isValid(hCall.request)
  /\ hCall.response.status = 400
  /\ LET inst == limiterOf(hCall.request.endpoint)
     IN /\ clientIp(hCall.request) \in DOMAIN requests[inst]
        /\ requests[inst][clientIp(hCall.request)].count = maxRequests(inst)

\* C19: when isAllowed refuses the client identifier (x-forwarded-for, else
\* x-real-ip, else "unknown") the handler answers 429 with Retry-After and the
\* X-RateLimit-* headers, runs neither validation nor cache nor upstream, and
\* leaves cache and pending requests as they were.
RateLimitedIsRejected ==
  /\ []((hCall.op = "receive" /\ ~hCall.allowed) =>
          /\ hCall.response.status = 429
          /\ {"Retry-After", "X-RateLimit-Limit", "X-RateLimit-Remaining",
              "X-RateLimit-Reset"} \subseteq hCall.response.headers
          /\ hCall.steps = <<"ratelimit", "respond">>)
  /\ [][hCall'.op = "receive" =>
          LET request == hCall'.request
              inst == limiterOf(request.endpoint)
              ip == IF request.xff # Null THEN request.xff
                    ELSE IF request.xri # Null THEN request.xri
                    ELSE "unknown"
              r == isAllowed(inst, requests[inst], ip)
          IN /\ hCall'.allowed = r.result.allowed
             /\ requests' = [requests EXCEPT ![inst] = r.map]
             /\ ~r.result.allowed => (cache' = cache /\ pending' = pending)]_vars

\* A request with no valid ticker and only an x-real-ip header was answered
\* 429.
InvalidRequestRateLimited ==
  /\ hCall.op = "receive"
  /\ hCall.response.status = 429
  /\ ~isValid(hCall.request)
  /\ hCall.request.xff = Null
  /\ hCall.request.xri # Null

\* The request handled last passed rate limit, validation and ETag check and
\* arrived within the TTL of the upstream result last stored for its endpoint.
ArrivedWithinTtl ==
  /\ hCall.op = "receive"
  /\ hCall.allowed
  /\ isValid(hCall.request)
  /\ hCall.response.status # 304
  /\ enabled
  /\ lastMiss[hCall.request.endpoint] # NeverStored
  /\ now <= lastMiss[hCall.request.endpoint].at + ttlMs

\* C20: once a MISS has stored the upstream result, an identical request
\* within the TTL is a HIT and calls no upstream.
SecondRequestHits ==
  ArrivedWithinTtl =>
    /\ hCall.response.xCache = "HIT"
    /\ ~Has_(hCall.steps, "upstream")

\* C20, amended: with a value in the cache under the request's key the
\* response is a HIT with the cached body and no upstream call; otherwise the
\* upstream is called once, its result is stored under the key computed when
\* the request arrived and the response is a MISS; with the cache enabled, a
\* second request within the TTL whose key is that same key (for the
\* historical endpoint: one that arrives on the same UTC date) is a HIT.
CacheAside ==
  /\ []((ArrivedWithinTtl /\ lastMiss[hCall.request.endpoint].key = hCall.key) =>
          /\ hCall.response.xCache = "HIT"
          /\ ~Has_(hCall.steps, "upstream"))
  /\ [][/\ (hCall'.op = "receive" /\ hCall'.allowed /\ isValid(hCall'.request)
            /\ hCall'.response.status # 304) =>
             LET endpoint == hCall'.request.endpoint
                 key == cacheKey(endpoint, today, hCall'.request.ticker, hCall'.request.fields)
                 live == /\ enabled
                         /\ key \in DOMAIN cache
                         /\ ~(now > cache[key].timestamp + ttlMs)
             IN /\ hCall'.key = key
                /\ live => /\ hCall'.response = Ok(endpoint, "HIT", cache[key].data)
                           /\ ~Has_(hCall'.steps, "upstream")
                           /\ pending' = pending
                /\ ~live => /\ hCall'.response = NoResponse
                            /\ Len(SelectSeq(hCall'.steps, LAMBDA x : x = "upstream")) = 1
                            /\ pending[endpoint] = <<>>
                            /\ pending'[endpoint] = <<hCall'>>
        /\ hCall'.op = "resolve" =>
             LET endpoint == hCall'.request.endpoint
             IN /\ pending[endpoint] # <<>>
                /\ hCall'.key = pending[endpoint][1].key
                /\ hCall'.response.xCache = "MISS"
                /\ Len(SelectSeq(hCall'.steps, LAMBDA x : x = "upstream")) = 1
                /\ enabled => cache'[hCall'.key] =
                                [data |-> hCall'.response.body, timestamp |-> now]]_vars

\* A request was answered HIT from the entry an earlier MISS of its endpoint
\* stored under the same key.
SecondRequestWasHit ==
  /\ ArrivedWithinTtl
  /\ lastMiss[hCall.request.endpoint].key = hCall.key
  /\ hCall.response.xCache = "HIT"
  /\ hCall.response.body = cache[hCall.key].data

\* ------------------------------------------- YahooFinanceService.enqueue
\* A task is the promise `result` of one enqueue call: after is the value of
\* the static queue it was chained on, state is "waiting" (task not called
\* yet), "running" (task called, its promise pending), "fulfilled", "rejected",
\* or "skipped" (rejected without the task having been called), call is the
\* handler call that awaits it.
Settled == {"fulfilled", "rejected", "skipped"}

\* The state of `result.then(() => {}, () => {})` for task t, and of
\* Promise.resolve() for 0.
linkKeepsRejection(ts, t) ==
  IF t = 0 THEN "fulfilled"
  ELSE IF ts[t].state = "fulfilled" THEN "fulfilled"
  ELSE IF ts[t].state \in Settled THEN "rejected"
  ELSE "pending"
link(ts, t) ==
  IF t = 0 THEN "fulfilled"
  ELSE IF ts[t].state \in Settled THEN "fulfilled"
  ELSE "pending"

\* `queue.then(task)` once the promise it was chained on has settled: the task
\* is called if that promise is fulfilled, the result rejects with that
\* promise's reason otherwise.
then_(ts, t) ==
  IF link(ts, ts[t].after) = "fulfilled" THEN "running" ELSE "skipped"

\* enqueue(task): the tasks and the static queue after the call.
enqueueUnchained(ts, q, call) ==
  [tasks |-> Append(ts, [after |-> 0, state |-> "waiting", call |-> call]),
   queue |-> Len(ts) + 1]
enqueueCoalesces(ts, q, call) ==
  IF \E t \in DOMAIN ts : ts[t].call.key = call.key /\ ts[t].state \notin Settled
    THEN [tasks |-> ts, queue |-> q]
    ELSE [tasks |-> Append(ts, [after |-> q, state |-> "waiting", call |-> call]),
          queue |-> Len(ts) + 1]
enqueue(ts, q, call) ==
  [tasks |-> Append(ts, [after |-> q, state |-> "waiting", call |-> call]),
   queue |-> Len(ts) + 1]

\* The historical requests of two clients for the same ticker and fields.
QueueRequests ==
  {[endpoint |-> "historical", xff |-> ip, xri |-> Null, ticker |-> "T",
    fields |-> <<"close", "open">>, ifNoneMatch |-> <<>>] : ip \in Identifiers}

\* A request arrives; its handler runs to its response or to its
\* `await yahooFinanceService.getHistoricalData(...)`, which enqueues a task.
Arrive(request) ==
  LET r == receive(request)
      call == [op |-> "receive", request |-> request,
               allowed |-> r.rateLimit.allowed, key |-> r.key,
               steps |-> r.steps, response |-> r.response]
      q == IF r.await THEN enqueue(tasks, queue, call)
           ELSE [tasks |-> tasks, queue |-> queue]
  IN /\ r.await => Len(tasks) < MaxTasks
     /\ requests' = [requests EXCEPT ![limiterOf(request.endpoint)] = r.map]
     /\ cache' = r.cache
     /\ tasks' = q.tasks
     /\ queue' = q.queue
     /\ hCall' = call
     /\ UNCHANGED <<now, started>>

\* getQuotes of any service instance: a task no cache entry depends on.
QuotesCall == [NoHandlerCall EXCEPT !.op = "quotes"]
GetQuotes ==
  LET q == enqueue(tasks, queue, QuotesCall)
  IN /\ Len(tasks) < MaxTasks
     /\ tasks' = q.tasks
     /\ queue' = q.queue
     /\ hCall' = QuotesCall
     /\ UNCHANGED <<now, requests, cache, started>>

\* The promise task t was chained on has settled: the reaction registered by
\* `queue.then(task)` runs.
Start(t) ==
  /\ tasks[t].state = "waiting"
  /\ link(tasks, tasks[t].after) # "pending"
  /\ tasks' = [tasks EXCEPT ![t].state = then_(tasks, t)]
  /\ started' = IF then_(tasks, t) = "running" THEN Append(started, t) ELSE started
  /\ hCall' = [NoHandlerCall EXCEPT !.op = "start"]
  /\ UNCHANGED <<now, requests, cache, queue>>

\* Task t returns data: its caller stores it under the key computed when the
\* request arrived, and responds.
Fulfil(t, data) ==
  /\ tasks[t].state = "running"
  /\ tasks' = [tasks EXCEPT ![t].state = "fulfilled"]
  /\ LET p == tasks[t].call
     IN IF p.op = "quotes"
          THEN /\ hCall' = [p EXCEPT !.response = Ok("quotes", "-", data)]
               /\ cache' = cache
          ELSE /\ hCall' = [p EXCEPT !.op = "resolve",
                                     !.steps = @ \o <<"cache.set", "respond">>,
                                     !.response = Ok(p.request.endpoint, "MISS", data)]
               /\ cache' = set(cache, disk, p.key, data, TRUE).cache
  /\ UNCHANGED <<now, requests, queue, started>>

\* Task t throws: its caller's catch builds the response.
Throw(t, error) ==
  /\ tasks[t].state = "running"
  /\ tasks' = [tasks EXCEPT ![t].state = "rejected"]
  /\ hCall' = [tasks[t].call EXCEPT !.op = "fail",
                                    !.steps = @ \o <<"respond">>,
                                    !.response = UpstreamError("historical", error)]
  /\ UNCHANGED <<now, requests, cache, queue, started>>

QueueTick ==
  /\ now < MaxHandlerTime
  /\ now' = now + 1
  /\ hCall' = [NoHandlerCall EXCEPT !.op = "tick"]
  /\ UNCHANGED <<requests, cache, tasks, queue, started>>

InitQueue ==
  /\ InitHandler
  /\ enabled

\* What the handlers and the queue leave alone.
queueFrame ==
  <<rlCall, rlRet, rlSeen, obsInst, trace, grants, shadow, shadowRet, enabled,
    persistenceEnabled, ttlMs, disk, keysInUse, cCall, cRet, readOnly, lastSet,
    pending, lastMiss>>

Settle ==
  \/ \E t \in DOMAIN tasks, data \in Data : Fulfil(t, data)
  \/ \E t \in DOMAIN tasks, error \in Errors : Throw(t, error)

NextQueue ==
  \/ \E request \in QueueRequests : Arrive(request) /\ UNCHANGED queueFrame
  \/ GetQuotes /\ UNCHANGED queueFrame
  \/ \E t \in DOMAIN tasks : Start(t) /\ UNCHANGED queueFrame
  \/ \E t \in DOMAIN tasks, data \in Data : Fulfil(t, data) /\ UNCHANGED queueFrame
  \/ \E t \in DOMAIN tasks, error \in Errors : Throw(t, error) /\ UNCHANGED queueFrame
  \/ QueueTick /\ UNCHANGED queueFrame

SpecQueue == InitQueue /\ [][NextQueue]_vars

\* The event loop runs every reaction that is ready, and every task that was
\* called settles.
SpecQueueLive ==
  /\ InitQueue
  /\ [][NextQueue]_vars
  /\ WF_vars(\E t \in DOMAIN tasks : Start(t) /\ UNCHANGED queueFrame)
  /\ WF_vars(Settle /\ UNCHANGED queueFrame)

\* ------------------------------------------------------------ queue claims
Running == {t \in DOMAIN tasks : tasks[t].state = "running"}

\* C22: the tasks of all callers run through one chain: at most one task is
\* running, a task is started only when every task enqueued before it has
\* settled, and the tasks start in the order of the enqueue calls.
UpstreamSerialized ==
  /\ [](/\ Cardinality(Running) <= 1
        /\ \A t \in DOMAIN tasks :
             tasks[t].state # "waiting" =>
               \A u \in 1..(t - 1) : tasks[u].state \in Settled
        /\ started = [i \in 1..Len(started) |-> i])
  /\ [][\A t \in DOMAIN tasks :
          (tasks[t].state = "waiting" /\ tasks'[t].state # "waiting") =>
            /\ \A u \in 1..(t - 1) : tasks[u].state \in Settled
            /\ Running = {}
            /\ started' = Append(started, t)]_vars

\* The task of one client is running while the task of another client, enqueued
\* later, waits behind it.
TaskWaitsBehindRunning ==
  \E t, u \in DOMAIN tasks :
    /\ t < u
    /\ tasks[t].state = "running"
    /\ tasks[u].state = "waiting"
    /\ tasks[t].call.op = "receive"
    /\ tasks[u].call.op = "receive"
    /\ clientIp(tasks[t].call.request) # clientIp(tasks[u].call.request)

\* C23: every task passed to enqueue is eventually started; a task that
\* rejects leaves the tasks behind it waiting to be started, none of them is
\* rejected without having run, and the rejection goes to its own caller.
QueueProgress ==
  /\ \A t \in 1..MaxTasks :
       (t \in DOMAIN tasks /\ tasks[t].state = "waiting")
         ~> (t \in DOMAIN tasks /\ t \in {started[i] : i \in 1..Len(started)})
  /\ [](\A t \in DOMAIN tasks : tasks[t].state # "skipped")
  /\ [][\A t \in DOMAIN tasks :
          (tasks[t].state = "running" /\ tasks'[t].state = "rejected") =>
            /\ \A u \in DOMAIN tasks : u # t => tasks'[u] = tasks[u]
            /\ hCall'.op = "fail"
            /\ hCall'.request = tasks[t].call.request
            /\ cache' = cache]_vars

\* A task was started after the task before it had rejected.
StartedAfterRejection ==
  \E t \in DOMAIN tasks :
    /\ t > 1
    /\ tasks[t - 1].state = "rejected"
    /\ tasks[t].state = "running"

\* The tasks of key that have not settled.
InFlight(key) ==
  {t \in DOMAIN tasks : tasks[t].call.key = key /\ tasks[t].state \notin Settled}

\* C29: at most one upstream fetch per cache key is waiting or running.
SingleFetchPerKey ==
  \A t \in DOMAIN tasks :
    tasks[t].call.op = "receive" => Cardinality(InFlight(tasks[t].call.key)) <= 1

\* C29, amended: every request that reaches the cache and misses enqueues an
\* upstream fetch of its own, whether or not a fetch for its key is waiting
\* or running; the fetches run one at a time and each result is stored under
\* its key when it arrives.
FetchPerMiss ==
  /\ [](\A key \in {tasks[t].call.key : t \in DOMAIN tasks} :
          Cardinality({t \in InFlight(key) : tasks[t].state = "running"}) <= 1)
  /\ [][/\ (hCall'.op = "receive" /\ hCall'.allowed /\ isValid(hCall'.request)) =>
             LET key == cacheKey(hCall'.request.endpoint, today, hCall'.request.ticker,
                                 hCall'.request.fields)
                 live == /\ key \in DOMAIN cache
                         /\ ~(now > cache[key].timestamp + ttlMs)
             IN IF live
                  THEN tasks' = tasks /\ hCall'.response.xCache = "HIT"
                  ELSE /\ Len(tasks') = Len(tasks) + 1
                       /\ tasks'[Len(tasks')].call.key = key
                       /\ tasks'[Len(tasks')].state = "waiting"
                       /\ \A t \in DOMAIN tasks : tasks'[t] = tasks[t]
        /\ hCall'.op = "resolve" =>
             cache'[hCall'.key] = [data |-> hCall'.response.body, timestamp |-> now]]_vars

\* Two requests for one key missed at the same time: the fetch of one is
\* running, the fetch of the other waits in the queue.
TwoFetchesForOneKey ==
  \E t, u \in DOMAIN tasks :
    /\ t < u
    /\ tasks[t].call.op = "receive"
    /\ tasks[t].call.key = tasks[u].call.key
    /\ tasks[t].state = "running"
    /\ tasks[u].state = "waiting"

OwnSteps ==
  \/ hCall'.op = "receive" /\ Has_(hCall'.steps, "upstream")
  \/ hCall'.op = "fail"

====
